---- MODULE Spec2Model ----
(***************************************************************************)
(* Model of the streaming response decoder of the Latitude API client      *)
(* (src/src/lib.rs): Client::run / Client::chat check the HTTP status,     *)
(* spawn a producer task that decodes SSE frames into Events and sends     *)
(* them over a bounded mpsc channel, and return the receiver to the caller.*)
(***************************************************************************)
EXTENDS Integers, Sequences, FiniteSets, TLC

\* ------------------------------------------------------------------ bounds

\* Longest frame sequence of the exhaustively enumerated response bodies.
MaxFrames == 2

\* How many frames beyond the channel capacity the long response bodies hold.
Extra == 1

\* How many times the consumer calls recv after the end of the sequence.
MaxNone == 2

\* ------------------------------------------------------- program constants

\* mpsc::channel(100)
Capacity == 100

\* ------------------------------------------------------------- data model

\* The discriminants of LatitudeEventType (serde tag = "type", kebab-case).
LatitudeEventType == {"chain-step", "chain-step-complete", "chain-complete"}

\* The discriminants of ProviderEventType (serde tag = "type", kebab-case).
ProviderEventType ==
    {"text-delta", "tool-call", "tool-result", "step-finish", "finish", "error"}

\* Event::UnknownEvent carries no payload.
UnknownEvent == [kind |-> "UnknownEvent", type |-> "", tag |-> 0]

\* Event::LatitudeEvent(LatitudeEvent { event_type }).
LatitudeEvent(data) == [kind |-> "LatitudeEvent", type |-> data.type, tag |-> data.tag]

\* Event::ProviderEvent(ProviderEvent { event_type }).
ProviderEvent(data) == [kind |-> "ProviderEvent", type |-> data.type, tag |-> data.tag]

\* The value of a variable that holds no event.
NoEvent == [kind |-> "none", type |-> "", tag |-> 0]

\* Result<Event, Error>
Ok(e) == [ok |-> TRUE, event |-> e]

Err == [ok |-> FALSE, event |-> NoEvent]

\* A mutant of from_slice_latitude: the payload is wrapped as a provider event.
from_slice_latitude_as_provider(data) ==
    IF data.type \in LatitudeEventType THEN Ok(ProviderEvent(data)) ELSE Err

\* serde_json::from_slice::<LatitudeEvent>(data): the payload must be JSON
\* whose "type" is a LatitudeEventType discriminant.
from_slice_latitude(data) ==
    IF data.type \in LatitudeEventType THEN Ok(LatitudeEvent(data)) ELSE Err

\* serde_json::from_slice::<ProviderEvent>(data).
from_slice_provider(data) ==
    IF data.type \in ProviderEventType THEN Ok(ProviderEvent(data)) ELSE Err

\* The name folded to lower case, as a case-insensitive comparison sees it.
Lower(name) == IF name = "Latitude-Event" THEN "latitude-event" ELSE name

\* A mutant of parsed_event: the frame name is matched ignoring case.
parsed_event_ignore_case(message) ==
    CASE Lower(message.name) = "latitude-event" -> from_slice_latitude(message.data)
      [] Lower(message.name) = "provider-event" -> from_slice_provider(message.data)
      [] OTHER -> Ok(UnknownEvent)

\* let parsed_event = match message.name().as_str() { ... }
parsed_event(message) ==
    CASE message.name = "latitude-event" -> from_slice_latitude(message.data)
      [] message.name = "provider-event" -> from_slice_provider(message.data)
      [] OTHER -> Ok(UnknownEvent)

\* ------------------------------------------------------------------ inputs

\* Frame names the server sends: the two known names, a differently-cased
\* one, the default name of a frame without an event: line, an unknown one.
Names == {"latitude-event", "provider-event", "Latitude-Event", "message"}

\* Payload shapes: a chain step, a text delta, a payload that is not JSON.
Types == {"chain-step", "text-delta", "invalid-format"}

\* async_sse::Event::Message(message); tag tells the payloads apart.
Message(name, type, tag) ==
    [item |-> "Message", name |-> name, data |-> [type |-> type, tag |-> tag]]

\* async_sse::Event::Retry(_)
Retry == [item |-> "Retry", name |-> "", data |-> [type |-> "", tag |-> 0]]

\* What the decoder yields for a frame of the given shape at position i.
Item(shape, i) ==
    IF shape = "Retry" THEN Retry ELSE Message(shape[1], shape[2], i)

Shapes == (Names \X Types) \cup {"Retry"}

\* How the byte source ends: exhausted, a transport error, or left open by
\* the server with no further bytes.
Endings == {"eof", "error", "open"}

\* All short bodies: every sequence of at most MaxFrames frame shapes.
ShortBodies ==
    UNION {{[i \in 1..n |-> Item(s[i], i)] : s \in [1..n -> Shapes]} : n \in 0..MaxFrames}

\* Long bodies: more events than the channel holds, all of one shape.
LongBodies ==
    {[i \in 1..(Capacity + Extra) |-> Item(<<"provider-event", "text-delta">>, i)]}

Sources ==
    {[items |-> b, ending |-> e] : b \in ShortBodies, e \in Endings}
    \cup {[items |-> b, ending |-> "eof"] : b \in LongBodies}

\* The HTTP statuses the server answers with.
Statuses == {200, 201, 400, 401, 403, 404, 409, 422, 429, 500}

\* --------------------------------------------------------------- variables

VARIABLES
    api,        \* which call is made: "run", "chat", "get", "log" or "eval"
    stream,     \* document.stream / chat.stream
    status,     \* response.status()
    result,     \* what the call returned: "none" while it has not returned
    source,     \* the response body as the SSE decoder will yield it
    idx,        \* how many items decoder.next() has yielded
    task,       \* the producer task: "none", "next", "send", "done"
    exit,       \* why the task left its loop: "none", "eof", "error", "closed"
    event,      \* the event the task is sending while task = "send"
    queue,      \* the events in the channel
    receiver,   \* the receiver handle: "none", "held", "dropped"
    received,   \* the events recv has returned
    nones,      \* how many times recv has returned None
    client,     \* the Client's default project_id and version_id
    options,    \* the call's Option<Options>
    request,    \* the HTTP requests sent, with the ids of their URLs
    error,      \* the Error the call returned: "none" if it returned none
    builder,    \* the request builder being filled in
    built,      \* what build() returned: "none" before it is called
    instances,  \* the stream instances of two concurrent calls
    channels,   \* the queues of the channels created for them
    loops       \* the loops of run and of chat, run on one input side by side

\* The variables of the call's configuration and outcome.
call == <<client, options, request, error>>

\* The variables of two concurrent stream instances.
pair == <<instances, channels>>

\* The variables the calls and the stream never touch.
others == <<builder, built, pair, loops>>

vars == <<api, stream, status, result, source, idx, task, exit, event, queue,
          receiver, received, nones, call, others>>

NoSource == [items |-> <<>>, ending |-> "eof"]

\* Option<T>: None is the empty set, Some(x) the set of x alone.
None == {}

Some(x) == {x}

\* Option::or
or(a, b) == IF a # None THEN a ELSE b

\* Option::unwrap_or_else(|| d)
unwrap_or(a, d) == IF a # None THEN CHOOSE x \in a : TRUE ELSE d

\* options.as_ref().and_then(|opts| opts.project_id)
opts_project_id(opts) == UNION {o.project_id : o \in opts}

\* options.as_ref().and_then(|opts| opts.version_id.clone())
opts_version_id(opts) == UNION {o.version_id : o \in opts}

\* The clients: with and without a default project id and version id.
Clients == [project_id : {None, Some(2)}, version_id : {None, Some("client-version")}]

\* The options of a call: none, or Options with either field set or not.
OptionsValues ==
    {None} \cup {Some(o) : o \in [project_id : {None, Some(1)},
                                  version_id : {None, Some("options-version")}]}

\* A builder that was never created.
NoBuilder == [kind |-> "none", calls |-> <<>>]

\* The state before any stream, request or builder exists.
Idle ==
    /\ result = "none"
    /\ source = NoSource
    /\ idx = 0
    /\ task = "none"
    /\ exit = "none"
    /\ event = NoEvent
    /\ queue = <<>>
    /\ receiver = "none"
    /\ received = <<>>
    /\ nones = 0
    /\ request = {}
    /\ error = "none"

\* The two calls whose streams run concurrently.
StreamIds == {1, 2}

\* A call that was not made yet: no task, no channel, no handle.
NoInstance ==
    [api |-> "none", source |-> NoSource, idx |-> 0, task |-> "none",
     event |-> NoEvent, tx |-> 0, rx |-> 0, receiver |-> "none", received |-> <<>>]

\* No second stream exists.
NoStreams ==
    /\ instances = [s \in StreamIds |-> NoInstance]
    /\ channels = <<>>

\* A loop that was not run.
NoOutcome == [i |-> 0, sent |-> <<>>, exit |-> "none"]

\* No input is run through the two loops.
NoLoops ==
    loops = [source |-> NoSource, consumer |-> [recvs |-> 0, drop_at |-> 0],
             run |-> NoOutcome, chat |-> NoOutcome]

\* build() has not been called.
NotBuilt == [state |-> "none", msg |-> "", value |-> NoBuilder]

\* No request builder is in use.
NoBuilding ==
    /\ builder = NoBuilder
    /\ built = NotBuilt

\* A streaming or chat call on a client that has a project id.
Init ==
    /\ api \in {"run", "chat"}
    /\ stream \in BOOLEAN
    /\ status \in Statuses
    /\ client = [project_id |-> Some(2), version_id |-> None]
    /\ options = None
    /\ Idle
    /\ NoBuilding
    /\ NoStreams
    /\ NoLoops

\* Any call on any client with any options.
ApiInit ==
    /\ api \in {"run", "chat", "get", "log", "eval"}
    /\ stream \in BOOLEAN
    /\ status \in Statuses
    /\ client \in Clients
    /\ options \in OptionsValues
    /\ Idle
    /\ NoBuilding
    /\ NoStreams
    /\ NoLoops

\* ------------------------------------------------------------ orchestrator

\* A mutant of check_status: 401 and 403 are taken for one another.
check_status_swapped(s) ==
    CASE s = 429 -> "RateLimitError"
      [] s = 401 -> "ForbiddenError"
      [] s = 403 -> "UnauthorizedError"
      [] s = 400 -> "BadRequestError"
      [] s = 404 -> "NotFoundError"
      [] s = 409 -> "ConflictError"
      [] s = 422 -> "UnprocessableEntityError"
      [] OTHER -> "Ok"

\* Client::check_status: "Ok" for Ok(()), the LatitudeErrorCodes variant of
\* Err(Error::LatitudeError(_)) otherwise.
check_status(s) ==
    CASE s = 429 -> "RateLimitError"
      [] s = 401 -> "UnauthorizedError"
      [] s = 403 -> "ForbiddenError"
      [] s = 400 -> "BadRequestError"
      [] s = 404 -> "NotFoundError"
      [] s = 409 -> "ConflictError"
      [] s = 422 -> "UnprocessableEntityError"
      [] OTHER -> "Ok"

\* A mutant of project_id: a missing project id falls back to project 0.
project_id_or_zero(opts, cl) ==
    LET p == or(opts_project_id(opts), cl.project_id)
    IN  IF p = None THEN Some(0) ELSE p

\* let project_id = options.and_then(|opts| opts.project_id).or(self.project_id)
project_id(opts, cl) == or(opts_project_id(opts), cl.project_id)

\* A mutant of version_id: the client's default wins over the call's option.
version_id_client_first(opts, cl) ==
    unwrap_or(or(cl.version_id, opts_version_id(opts)), "live")

\* let version_id = options.and_then(|opts| opts.version_id.clone())
\*     .or(self.version_id.clone()).unwrap_or_else(|| "live".to_string())
version_id(opts, cl) ==
    unwrap_or(or(opts_version_id(opts), cl.version_id), "live")

\* self.client.post(&url)...send().await on a URL built from the two ids.
SendWithIds(pid, vid) ==
    request' = request \cup
        {[api |-> api, project_id |-> pid, version_id |-> Some(vid)]}

\* self.client.post(&url)...send().await on a URL without project or version.
SendPlain ==
    request' = request \cup {[api |-> api, project_id |-> None, version_id |-> None]}

\* .ok_or_else(|| Error::ConfigError("Project ID is required".to_owned()))?
ConfigError ==
    /\ result' = "Err"
    /\ error' = "ConfigError"
    /\ request' = request
    /\ UNCHANGED <<source, task, receiver>>

\* Self::check_status(response.status())? returning the error.
StatusError ==
    /\ result' = "Err"
    /\ error' = check_status(status)
    /\ UNCHANGED <<source, task, receiver>>

\* response.json::<T>().await.map(..).map_err(Error::from): the body parses
\* or the call returns Error::HttpError.
Json(ok) ==
    /\ \/ result' = ok /\ error' = "none"
       \/ result' = "Err" /\ error' = "HttpError"
    /\ UNCHANGED <<source, task, receiver>>

\* A mutant of Spawn: the call awaits the task it spawned, so it returns only
\* after the loop has ended.
SpawnAwaited ==
    /\ \E s \in Sources : source' = s
    /\ task' = "done"
    /\ receiver' = "held"
    /\ result' = "Stream"

\* tokio::spawn(async move { ... }); return Ok(Response::Stream(receiver)).
\* The response body is the server's choice.
Spawn ==
    /\ \E s \in Sources : source' = s
    /\ task' = "next"
    /\ receiver' = "held"
    /\ result' = "Stream"

\* A mutant of run_response: the stream flag is ignored.
run_response_json_only == Json("Json")

\* if document.stream { ...; return Ok(Response::Stream(receiver)); }
\* response.json::<RunResponse>().await.map(Response::Json)
run_response ==
    IF stream THEN Spawn /\ error' = "none" ELSE Json("Json")

\* Client::run
run ==
    /\ api = "run"
    /\ result = "none"
    /\ LET pid == project_id(options, client) IN
       IF pid = None
         THEN ConfigError
         ELSE /\ SendWithIds(pid, version_id(options, client))
              /\ IF check_status(status) # "Ok" THEN StatusError ELSE run_response
    /\ UNCHANGED <<api, stream, status, idx, exit, event, queue, received, nones,
                   client, options, others>>

\* Client::chat
chat ==
    /\ api = "chat"
    /\ result = "none"
    /\ IF ~stream
         THEN /\ result' = "panic"
              /\ UNCHANGED <<source, task, receiver, request, error>>
         ELSE /\ SendPlain
              /\ IF check_status(status) # "Ok"
                   THEN StatusError
                   ELSE Spawn /\ error' = "none"
    /\ UNCHANGED <<api, stream, status, idx, exit, event, queue, received, nones,
                   client, options, others>>

\* Client::get
get ==
    /\ api = "get"
    /\ result = "none"
    /\ LET pid == project_id(options, client) IN
       IF pid = None
         THEN ConfigError
         ELSE /\ SendWithIds(pid, version_id(options, client))
              /\ IF check_status(status) # "Ok" THEN StatusError ELSE Json("Document")
    /\ UNCHANGED <<api, stream, status, idx, exit, event, queue, received, nones,
                   client, options, others>>

\* Client::log
log ==
    /\ api = "log"
    /\ result = "none"
    /\ LET pid == project_id(options, client) IN
       IF pid = None
         THEN ConfigError
         ELSE /\ SendWithIds(pid, version_id(options, client))
              /\ IF check_status(status) # "Ok" THEN StatusError ELSE Json("LogResponse")
    /\ UNCHANGED <<api, stream, status, idx, exit, event, queue, received, nones,
                   client, options, others>>

\* Client::eval
eval ==
    /\ api = "eval"
    /\ result = "none"
    /\ SendPlain
    /\ IF check_status(status) # "Ok" THEN StatusError ELSE Json("EvaluationResponse")
    /\ UNCHANGED <<api, stream, status, idx, exit, event, queue, received, nones,
                   client, options, others>>

\* ----------------------------------------------------------- producer task

\* Leaving the loop ends the task: sender and decoder are dropped.
Break(why) ==
    /\ task' = "done"
    /\ exit' = why
    /\ event' = NoEvent

\* A mutant of OnMessage: a payload that fails to parse ends the stream.
OnMessageAbort(message) ==
    LET p == parsed_event(message) IN
    IF p.ok
      THEN /\ task' = "send"
           /\ event' = p.event
           /\ exit' = exit
      ELSE Break("error")

\* Ok(async_sse::Event::Message(message)) => { ... }: an event that parsed is
\* sent; if let Ok(event) = parsed_event has no else branch.
OnMessage(message) ==
    LET p == parsed_event(message) IN
    IF p.ok
      THEN /\ task' = "send"
           /\ event' = p.event
           /\ exit' = exit
      ELSE UNCHANGED <<task, event, exit>>

\* A mutant of OnRetry: a retry frame is reported as an UnknownEvent.
OnRetryAsUnknown ==
    /\ task' = "send"
    /\ event' = UnknownEvent
    /\ exit' = exit

\* Ok(async_sse::Event::Retry(_)) => {}
OnRetry == UNCHANGED <<task, event, exit>>

\* A mutant of OnStreamingError: the error is also put on the queue.
OnStreamingErrorSentinel ==
    /\ Break("error")
    /\ queue' = Append(queue, UnknownEvent)

\* Err(e) => { eprintln!("Streaming error: {:?}", e); break; }
OnStreamingError ==
    /\ Break("error")
    /\ queue' = queue

\* while let Some(event) = decoder.next().await { match event { ... } }
DecoderNext ==
    /\ task = "next"
    /\ IF idx < Len(source.items)
         THEN /\ idx' = idx + 1
              /\ queue' = queue
              /\ LET it == source.items[idx + 1] IN
                 IF it.item = "Message" THEN OnMessage(it) ELSE OnRetry
         ELSE /\ source.ending # "open"
              /\ idx' = idx
              /\ IF source.ending = "error"
                   THEN OnStreamingError
                   ELSE Break("eof") /\ queue' = queue
    /\ UNCHANGED <<call, others, api, stream, status, result, source, receiver, received, nones>>

\* A mutant of HasCapacity: an unbounded channel.
HasCapacityUnbounded(q) == TRUE

\* The channel accepts a value while fewer than Capacity are outstanding.
HasCapacity(q) == Len(q) < Capacity

\* A mutant of ChannelPush: the newest event overtakes the queued ones.
ChannelPushFront(q, e) == <<e>> \o q

\* The channel is first-in first-out.
ChannelPush(q, e) == Append(q, e)

\* A mutant of OnSendError: the failed send is ignored and the loop goes on.
OnSendErrorIgnored ==
    /\ task' = "next"
    /\ exit' = exit
    /\ event' = NoEvent

\* if sender.send(event).await.is_err() { break; }
OnSendError == Break("closed")

\* A mutant of Send: try_send, which gives the event up when the channel is
\* full instead of waiting.
SendOrDiscard ==
    /\ task = "send"
    /\ IF receiver = "dropped"
         THEN /\ OnSendError
              /\ queue' = queue
         ELSE /\ queue' = IF HasCapacity(queue) THEN ChannelPush(queue, event)
                                               ELSE queue
              /\ task' = "next"
              /\ event' = NoEvent
              /\ exit' = exit
    /\ UNCHANGED <<call, others, api, stream, status, result, source, idx, receiver,
                   received, nones>>

\* A mutant of Send: a send on a channel whose receiver is gone never
\* completes.
SendParked ==
    /\ task = "send"
    /\ receiver # "dropped"
    /\ HasCapacity(queue)
    /\ queue' = ChannelPush(queue, event)
    /\ task' = "next"
    /\ event' = NoEvent
    /\ exit' = exit
    /\ UNCHANGED <<call, others, api, stream, status, result, source, idx, receiver,
                   received, nones>>

\* sender.send(event).await: fails once the receiver is gone, waits while the
\* channel is full.
Send ==
    /\ task = "send"
    /\ IF receiver = "dropped"
         THEN /\ OnSendError
              /\ queue' = queue
         ELSE /\ HasCapacity(queue)
              /\ queue' = ChannelPush(queue, event)
              /\ task' = "next"
              /\ event' = NoEvent
              /\ exit' = exit
    /\ UNCHANGED <<call, others, api, stream, status, result, source, idx, receiver,
                   received, nones>>

\* ---------------------------------------------------------------- consumer

\* A mutant of SenderDropped: recv gives up whenever the queue is empty.
SenderDroppedAlways == TRUE

\* The sender lives in the task and is dropped when the task ends.
SenderDropped == task = "done"

\* event_stream.recv().await returning Some(event)
RecvSome ==
    /\ receiver = "held"
    /\ queue # <<>>
    /\ received' = Append(received, Head(queue))
    /\ queue' = Tail(queue)
    /\ UNCHANGED <<call, others, api, stream, status, result, source, idx, task, exit,
                   event, receiver, nones>>

\* A mutant of RecvNone: recv reports the end as soon as the sender is gone,
\* whatever is still queued.
RecvNoneOnClose ==
    /\ receiver = "held"
    /\ SenderDropped
    /\ nones < MaxNone
    /\ nones' = nones + 1
    /\ UNCHANGED <<call, others, api, stream, status, result, source, idx, task, exit,
                   event, queue, receiver, received>>

\* event_stream.recv().await returning None
RecvNone ==
    /\ receiver = "held"
    /\ queue = <<>>
    /\ SenderDropped
    /\ nones < MaxNone
    /\ nones' = nones + 1
    /\ UNCHANGED <<call, others, api, stream, status, result, source, idx, task, exit,
                   event, queue, receiver, received>>

\* The caller drops the Receiver: the channel closes and its events are freed.
DropReceiver ==
    /\ receiver = "held"
    /\ receiver' = "dropped"
    /\ queue' = <<>>
    /\ UNCHANGED <<call, others, api, stream, status, result, source, idx, task, exit,
                   event, received, nones>>

Next ==
    \/ run
    \/ chat
    \/ DecoderNext
    \/ Send
    \/ RecvSome
    \/ RecvNone
    \/ DropReceiver

Spec == Init /\ [][Next]_vars

\* The calls alone, on every client and with every options value.
ApiNext ==
    \/ run
    \/ chat
    \/ get
    \/ log
    \/ eval

ApiSpec == ApiInit /\ [][ApiNext]_vars

\* The runtime keeps polling a task that can make progress.
FairSpec == Spec /\ WF_vars(DecoderNext) /\ WF_vars(Send)

\* ---------------------------------------------------------------- builders

\* The most setter calls made on one builder.
MaxCalls == 3

\* The messages, roles and options handed to the builders.
MessageValues == {"m1", "m2"}

RoleValues == {"System", "Assistant", "User"}

BuilderOptions == [project_id |-> Some(1), version_id |-> None]

\* Option::ok_or(..)?, on the branch where the option holds a value.
unwrap(o) == CHOOSE x \in o : TRUE

\* ChatBuilder::new
ChatBuilder_new ==
    [kind |-> "Chat", calls |-> <<>>, messages |-> <<>>, conversation_id |-> None,
     stream |-> FALSE]

\* MessageBuilder::new
MessageBuilder_new ==
    [kind |-> "Message", calls |-> <<>>, role |-> None, content |-> <<>>]

\* RunDocumentBuilder::default
RunDocumentBuilder_default ==
    [kind |-> "RunDocument", calls |-> <<>>, path |-> None, parameters |-> None,
     stream |-> None, options |-> None]

\* LogBuilder::new
LogBuilder_new ==
    [kind |-> "Log", calls |-> <<>>, path |-> None, messages |-> <<>>,
     response |-> None, options |-> None]

\* static BASE_URL
BASE_URL == "https://gateway.latitude.so/api/v2"

\* The API keys: one that is a valid header value and one that is not.
ApiKeys == {"test_api_key", "invalid\nkey"}

ProjectIds == {123, 12345}

\* Client::builder
Client_builder(api_key) ==
    [kind |-> "ClientBuilder", calls |-> <<>>, api_key |-> api_key, project_id |-> None,
     version_id |-> None, base_url |-> BASE_URL]

\* The arguments of a direct call of Client::new.
ClientNewArgs ==
    {[kind |-> "Client::new", calls |-> <<>>, api_key |-> k, project_id |-> p,
      version_id |-> v, base_url |-> u] :
        k \in ApiKeys, p \in {None} \cup {Some(i) : i \in ProjectIds},
        v \in {None, Some("test-version")}, u \in {None, Some("https://test.url/api")}}

\* A fresh builder of any kind, or the arguments of Client::new, and nothing
\* else going on.
BuilderInit ==
    /\ builder \in {ChatBuilder_new, MessageBuilder_new, RunDocumentBuilder_default,
                    LogBuilder_new}
                   \cup {Client_builder(k) : k \in ApiKeys} \cup ClientNewArgs
    /\ built = NotBuilt
    /\ api = "run"
    /\ stream = FALSE
    /\ status = 200
    /\ client = [project_id |-> None, version_id |-> None]
    /\ options = None
    /\ Idle
    /\ NoStreams
    /\ NoLoops

\* The variables no builder touches.
notBuilder == <<api, stream, status, result, source, idx, task, exit, event, queue,
                receiver, received, nones, call, pair, loops>>

\* A setter may be called on a builder of its kind that was not built yet.
CanSet(kind) ==
    /\ builder.kind = kind
    /\ built.state = "none"
    /\ Len(builder.calls) < MaxCalls

\* The builder with the setter call (name, arg) recorded.
Called(b, name, arg) == [b EXCEPT !.calls = Append(@, <<name, arg>>)]

\* Ok(value)
BuildOk(value) == [state |-> "Ok", msg |-> "", value |-> value]

\* Err(Error::ConfigError(msg))
BuildErr(msg) == [state |-> "Err", msg |-> msg, value |-> NoBuilder]

\* A mutant of ChatBuilder_add_message: the new message replaces the list.
ChatBuilder_add_message_replace ==
    /\ CanSet("Chat")
    /\ \E m \in MessageValues :
          builder' = Called([builder EXCEPT !.messages = <<m>>], "add_message", m)
    /\ UNCHANGED <<built, notBuilder>>

\* ChatBuilder::add_message
ChatBuilder_add_message ==
    /\ CanSet("Chat")
    /\ \E m \in MessageValues :
          builder' = Called([builder EXCEPT !.messages = Append(@, m)], "add_message", m)
    /\ UNCHANGED <<built, notBuilder>>

\* ChatBuilder::conversation_id
ChatBuilder_conversation_id ==
    /\ CanSet("Chat")
    /\ builder' = Called([builder EXCEPT !.conversation_id = Some("some-id")],
                         "conversation_id", "some-id")
    /\ UNCHANGED <<built, notBuilder>>

\* ChatBuilder::stream
ChatBuilder_stream ==
    /\ CanSet("Chat")
    /\ builder' = Called([builder EXCEPT !.stream = TRUE], "stream", "")
    /\ UNCHANGED <<built, notBuilder>>

\* ChatBuilder::build
ChatBuilder_build ==
    /\ builder.kind = "Chat"
    /\ built.state = "none"
    /\ built' = IF builder.conversation_id = None
                  THEN BuildErr("Conversation ID is required")
                  ELSE BuildOk([kind |-> "Chat", messages |-> builder.messages,
                                conversation_id |-> unwrap(builder.conversation_id),
                                stream |-> builder.stream])
    /\ UNCHANGED <<builder, notBuilder>>

\* MessageBuilder::role
MessageBuilder_role ==
    /\ CanSet("Message")
    /\ \E r \in RoleValues :
          builder' = Called([builder EXCEPT !.role = Some(r)], "role", r)
    /\ UNCHANGED <<built, notBuilder>>

\* MessageBuilder::add_content
MessageBuilder_add_content ==
    /\ CanSet("Message")
    /\ builder' = Called([builder EXCEPT !.content = Append(@, "text")],
                         "add_content", "text")
    /\ UNCHANGED <<built, notBuilder>>

\* MessageBuilder::build
MessageBuilder_build ==
    /\ builder.kind = "Message"
    /\ built.state = "none"
    /\ built' = IF builder.role = None
                  THEN BuildErr("Role is required")
                  ELSE BuildOk([kind |-> "Message", role |-> unwrap(builder.role),
                                content |-> builder.content])
    /\ UNCHANGED <<builder, notBuilder>>

\* RunDocumentBuilder::path
RunDocumentBuilder_path ==
    /\ CanSet("RunDocument")
    /\ builder' = Called([builder EXCEPT !.path = Some("test/path")], "path", "test/path")
    /\ UNCHANGED <<built, notBuilder>>

\* RunDocumentBuilder::parameters
RunDocumentBuilder_parameters ==
    /\ CanSet("RunDocument")
    /\ builder' = Called([builder EXCEPT !.parameters = Some("parameter_value")],
                         "parameters", "parameter_value")
    /\ UNCHANGED <<built, notBuilder>>

\* RunDocumentBuilder::stream
RunDocumentBuilder_stream ==
    /\ CanSet("RunDocument")
    /\ \E b \in BOOLEAN :
          builder' = Called([builder EXCEPT !.stream = Some(b)], "stream",
                            IF b THEN "true" ELSE "false")
    /\ UNCHANGED <<built, notBuilder>>

\* RunDocumentBuilder::options
RunDocumentBuilder_options ==
    /\ CanSet("RunDocument")
    /\ builder' = Called([builder EXCEPT !.options = Some(BuilderOptions)], "options", "")
    /\ UNCHANGED <<built, notBuilder>>

\* RunDocumentBuilder::build
RunDocumentBuilder_build ==
    /\ builder.kind = "RunDocument"
    /\ built.state = "none"
    /\ built' = IF builder.path = None
                  THEN BuildErr("Path is required")
                  ELSE BuildOk([kind |-> "RunDocument", path |-> unwrap(builder.path),
                                parameters |-> builder.parameters,
                                stream |-> unwrap_or(builder.stream, FALSE),
                                options |-> builder.options])
    /\ UNCHANGED <<builder, notBuilder>>

\* LogBuilder::path
LogBuilder_path ==
    /\ CanSet("Log")
    /\ builder' = Called([builder EXCEPT !.path = Some("test/path")], "path", "test/path")
    /\ UNCHANGED <<built, notBuilder>>

\* LogBuilder::add_message
LogBuilder_add_message ==
    /\ CanSet("Log")
    /\ \E m \in MessageValues :
          builder' = Called([builder EXCEPT !.messages = Append(@, m)], "add_message", m)
    /\ UNCHANGED <<built, notBuilder>>

\* LogBuilder::response
LogBuilder_response ==
    /\ CanSet("Log")
    /\ builder' = Called([builder EXCEPT !.response = Some("response")],
                         "response", "response")
    /\ UNCHANGED <<built, notBuilder>>

\* LogBuilder::options
LogBuilder_options ==
    /\ CanSet("Log")
    /\ builder' = Called([builder EXCEPT !.options = Some(BuilderOptions)], "options", "")
    /\ UNCHANGED <<built, notBuilder>>

\* A mutant of LogBuilder_build: a missing response becomes the empty string.
LogBuilder_build_default_response ==
    /\ builder.kind = "Log"
    /\ built.state = "none"
    /\ built' = IF builder.path = None
                  THEN BuildErr("Path is required")
                  ELSE BuildOk([kind |-> "Log", path |-> unwrap(builder.path),
                                messages |-> builder.messages,
                                response |-> unwrap_or(builder.response, ""),
                                options |-> builder.options])
    /\ UNCHANGED <<builder, notBuilder>>

\* LogBuilder::build
LogBuilder_build ==
    /\ builder.kind = "Log"
    /\ built.state = "none"
    /\ built' = IF builder.path = None
                  THEN BuildErr("Path is required")
                  ELSE IF builder.response = None
                    THEN BuildErr("Response is required")
                    ELSE BuildOk([kind |-> "Log", path |-> unwrap(builder.path),
                                  messages |-> builder.messages,
                                  response |-> unwrap(builder.response),
                                  options |-> builder.options])
    /\ UNCHANGED <<builder, notBuilder>>

\* HeaderValue::from_str(..) accepts only visible ASCII.
ValidHeaderValue(api_key) == api_key # "invalid\nkey"

\* .expect("Invalid API key") on a key that is no header value
BuildPanic == [state |-> "panic", msg |-> "Invalid API key", value |-> NoBuilder]

\* A mutant of Client_new: the base URL is always the default one.
Client_new_default_url(api_key, project_id_, version_id_, base_url) ==
    IF ~ValidHeaderValue(api_key) THEN BuildPanic
    ELSE BuildOk([kind |-> "Client", api_key |-> api_key, project_id |-> project_id_,
                  version_id |-> version_id_,
                  authorization |-> <<"Bearer", api_key>>,
                  base_url |-> BASE_URL])

\* Client::new
Client_new(api_key, project_id_, version_id_, base_url) ==
    IF ~ValidHeaderValue(api_key) THEN BuildPanic
    ELSE BuildOk([kind |-> "Client", api_key |-> api_key, project_id |-> project_id_,
                  version_id |-> version_id_,
                  authorization |-> <<"Bearer", api_key>>,
                  base_url |-> unwrap_or(base_url, BASE_URL)])

\* Client::new called directly with the chosen arguments
Client_new_call ==
    /\ builder.kind = "Client::new"
    /\ built.state = "none"
    /\ built' = Client_new(builder.api_key, builder.project_id, builder.version_id,
                           builder.base_url)
    /\ UNCHANGED <<builder, notBuilder>>

\* ClientBuilder::project_id
ClientBuilder_project_id ==
    /\ CanSet("ClientBuilder")
    /\ \E p \in ProjectIds :
          builder' = Called([builder EXCEPT !.project_id = Some(p)], "project_id", p)
    /\ UNCHANGED <<built, notBuilder>>

\* ClientBuilder::version_id
ClientBuilder_version_id ==
    /\ CanSet("ClientBuilder")
    /\ builder' = Called([builder EXCEPT !.version_id = Some("test-version")],
                         "version_id", "test-version")
    /\ UNCHANGED <<built, notBuilder>>

\* ClientBuilder::base_url
ClientBuilder_base_url ==
    /\ CanSet("ClientBuilder")
    /\ builder' = Called([builder EXCEPT !.base_url = "https://test.url/api"],
                         "base_url", "https://test.url/api")
    /\ UNCHANGED <<built, notBuilder>>

\* ClientBuilder::build
ClientBuilder_build ==
    /\ builder.kind = "ClientBuilder"
    /\ built.state = "none"
    /\ built' = Client_new(builder.api_key, builder.project_id, builder.version_id,
                           Some(builder.base_url))
    /\ UNCHANGED <<builder, notBuilder>>

BuilderNext ==
    \/ Client_new_call
    \/ ClientBuilder_project_id
    \/ ClientBuilder_version_id
    \/ ClientBuilder_base_url
    \/ ClientBuilder_build
    \/ ChatBuilder_add_message
    \/ ChatBuilder_conversation_id
    \/ ChatBuilder_stream
    \/ ChatBuilder_build
    \/ MessageBuilder_role
    \/ MessageBuilder_add_content
    \/ MessageBuilder_build
    \/ RunDocumentBuilder_path
    \/ RunDocumentBuilder_parameters
    \/ RunDocumentBuilder_stream
    \/ RunDocumentBuilder_options
    \/ RunDocumentBuilder_build
    \/ LogBuilder_path
    \/ LogBuilder_add_message
    \/ LogBuilder_response
    \/ LogBuilder_options
    \/ LogBuilder_build

BuilderSpec == BuilderInit /\ [][BuilderNext]_vars

\* ------------------------------------------------- two concurrent streams

\* Longest body served to each of the two concurrent calls.
PairFrames == 2

\* The payload of frame i of the body served to call s: the server answers
\* each call with data of its own.
PairTag(s, i) == s * 10 + i

\* The call whose response body carried the event.
Origin(e) == e.tag \div 10

PairShapes == {<<"latitude-event", "chain-step">>, <<"provider-event", "text-delta">>}

\* The bodies the server may answer call s with.
PairBodies(s) ==
    UNION {{[i \in 1..n |-> Message(sh[i][1], sh[i][2], PairTag(s, i))] :
                sh \in [1..n -> PairShapes]} : n \in 0..PairFrames}

\* Two calls are about to be made on one client; nothing else goes on.
PairInit ==
    /\ api = "run"
    /\ stream = TRUE
    /\ status = 200
    /\ client = [project_id |-> Some(2), version_id |-> None]
    /\ options = None
    /\ Idle
    /\ NoBuilding
    /\ NoStreams
    /\ NoLoops

\* The variables two concurrent streams never touch.
notPair == <<api, stream, status, result, source, idx, task, exit, event, queue,
             receiver, received, nones, call, builder, built, loops>>

\* A mutant of NewChannel: one process-wide channel serves every call.
NewChannelGlobal(chs) == 1

\* let (sender, mut receiver) = mpsc::channel(100): a channel no one else has.
NewChannel(chs) == Len(chs) + 1

\* Client::run / Client::chat with stream set, answered with a success
\* status: the call creates its channel, moves the sender into the task it
\* spawns and returns the receiver.
PairCall(s) ==
    /\ instances[s].task = "none"
    /\ \E a \in {"run", "chat"}, b \in PairBodies(s) :
          LET c == NewChannel(channels) IN
          /\ channels' = IF c \in DOMAIN channels THEN channels
                                                 ELSE Append(channels, <<>>)
          /\ instances' = [instances EXCEPT ![s] =
                [api |-> a, source |-> [items |-> b, ending |-> "eof"], idx |-> 0,
                 task |-> "next", event |-> NoEvent, tx |-> c, rx |-> c,
                 receiver |-> "held", received |-> <<>>]]
    /\ UNCHANGED notPair

\* while let Some(event) = decoder.next().await { ... } in the task of call s
PairDecoderNext(s) ==
    LET in == instances[s] IN
    /\ in.task = "next"
    /\ IF in.idx < Len(in.source.items)
         THEN LET p == parsed_event(in.source.items[in.idx + 1]) IN
              instances' = [instances EXCEPT ![s] =
                 IF p.ok THEN [in EXCEPT !.idx = @ + 1, !.task = "send", !.event = p.event]
                         ELSE [in EXCEPT !.idx = @ + 1]]
         ELSE instances' = [instances EXCEPT ![s].task = "done"]
    /\ UNCHANGED <<channels, notPair>>

\* sender.send(event).await in the task of call s
PairSend(s) ==
    LET in == instances[s] IN
    /\ in.task = "send"
    /\ IF in.receiver = "dropped"
         THEN /\ instances' = [instances EXCEPT ![s].task = "done", ![s].event = NoEvent]
              /\ channels' = channels
         ELSE /\ HasCapacity(channels[in.tx])
              /\ channels' = [channels EXCEPT ![in.tx] = ChannelPush(@, in.event)]
              /\ instances' = [instances EXCEPT ![s].task = "next", ![s].event = NoEvent]
    /\ UNCHANGED notPair

\* event_stream.recv().await returning Some(event) on the handle of call s
PairRecvSome(s) ==
    LET in == instances[s] IN
    /\ in.receiver = "held"
    /\ channels[in.rx] # <<>>
    /\ instances' = [instances EXCEPT ![s].received = Append(@, Head(channels[in.rx]))]
    /\ channels' = [channels EXCEPT ![in.rx] = Tail(@)]
    /\ UNCHANGED notPair

\* The caller of call s drops its Receiver.
PairDropReceiver(s) ==
    LET in == instances[s] IN
    /\ in.receiver = "held"
    /\ instances' = [instances EXCEPT ![s].receiver = "dropped"]
    /\ channels' = [channels EXCEPT ![in.rx] = <<>>]
    /\ UNCHANGED notPair

PairNext ==
    \E s \in StreamIds :
        \/ PairCall(s)
        \/ PairDecoderNext(s)
        \/ PairSend(s)
        \/ PairRecvSome(s)
        \/ PairDropReceiver(s)

PairSpec == PairInit /\ [][PairNext]_vars

\* ------------------------------------------- the loops of run and of chat

\* mpsc::channel(100) in Client::chat
chat_Capacity == 100

\* What the consumer of a stream does: how many events it ever receives, and
\* before which send of the task it drops the handle (0: it never does).
Consumers ==
    [recvs : {0, Extra},
     drop_at : (0..(MaxFrames + 1)) \cup {Capacity + 1, Capacity + Extra + 1}]

\* sender.send(event).await for the m-th event on a channel of the given
\* capacity: an error once the handle is dropped, also when the drop finds
\* the send waiting; waiting for ever if the channel is full of events the
\* consumer never takes; accepted otherwise.
SendOutcome(m, consumer, capacity) ==
    LET full == m > consumer.recvs + capacity IN
    IF consumer.drop_at # 0 /\ (m >= consumer.drop_at \/ full) THEN "closed"
    ELSE IF full THEN "suspended"
    ELSE "sent"

\* How decoder.next() ends the loop once the items are used up.
SourceEnd(ending) ==
    CASE ending = "eof" -> "eof"
      [] ending = "error" -> "error"
      [] OTHER -> "waiting"

\* One turn of the loop of the task spawned by Client::run, as a function of
\* the response body, the consumer and the loop's state: the items taken so
\* far, the events put on the queue and why the loop ended ("none": it has not).
run_step(src, consumer, st) ==
    IF st.i >= Len(src.items) THEN [st EXCEPT !.exit = SourceEnd(src.ending)]
    ELSE LET it == src.items[st.i + 1] IN
         IF it.item = "Message"
           THEN LET p == parsed_event(it)
                    o == SendOutcome(Len(st.sent) + 1, consumer, Capacity)
                IN  IF ~p.ok THEN [st EXCEPT !.i = @ + 1]
                    ELSE IF o = "sent"
                      THEN [st EXCEPT !.i = @ + 1, !.sent = Append(@, p.event)]
                      ELSE [st EXCEPT !.i = @ + 1, !.exit = o]
           ELSE [st EXCEPT !.i = @ + 1]

\* let parsed_event = match message.name().as_str() { ... } in Client::chat
chat_parsed_event(message) ==
    CASE message.name = "latitude-event" -> from_slice_latitude(message.data)
      [] message.name = "provider-event" -> from_slice_provider(message.data)
      [] OTHER -> Ok(UnknownEvent)

\* A mutant of chat_step: a payload that fails to parse ends the loop.
chat_step_abort(src, consumer, st) ==
    IF st.i >= Len(src.items) THEN [st EXCEPT !.exit = SourceEnd(src.ending)]
    ELSE LET it == src.items[st.i + 1] IN
         IF it.item = "Message"
           THEN LET p == chat_parsed_event(it)
                    o == SendOutcome(Len(st.sent) + 1, consumer, chat_Capacity)
                IN  IF ~p.ok THEN [st EXCEPT !.i = @ + 1, !.exit = "error"]
                    ELSE IF o = "sent"
                      THEN [st EXCEPT !.i = @ + 1, !.sent = Append(@, p.event)]
                      ELSE [st EXCEPT !.i = @ + 1, !.exit = o]
           ELSE [st EXCEPT !.i = @ + 1]

\* One turn of the loop of the task spawned by Client::chat, likewise.
chat_step(src, consumer, st) ==
    IF st.i >= Len(src.items) THEN [st EXCEPT !.exit = SourceEnd(src.ending)]
    ELSE LET it == src.items[st.i + 1] IN
         IF it.item = "Message"
           THEN LET p == chat_parsed_event(it)
                    o == SendOutcome(Len(st.sent) + 1, consumer, chat_Capacity)
                IN  IF ~p.ok THEN [st EXCEPT !.i = @ + 1]
                    ELSE IF o = "sent"
                      THEN [st EXCEPT !.i = @ + 1, !.sent = Append(@, p.event)]
                      ELSE [st EXCEPT !.i = @ + 1, !.exit = o]
           ELSE [st EXCEPT !.i = @ + 1]

\* One response body and one consumer, about to be given to both loops.
LoopInit ==
    /\ \E s \in Sources, c \in Consumers :
          loops = [source |-> s, consumer |-> c, run |-> NoOutcome, chat |-> NoOutcome]
    /\ api = "run"
    /\ stream = TRUE
    /\ status = 200
    /\ client = [project_id |-> Some(2), version_id |-> None]
    /\ options = None
    /\ Idle
    /\ NoBuilding
    /\ NoStreams

\* The variables the two loops never touch.
notLoops == <<api, stream, status, result, source, idx, task, exit, event, queue,
              receiver, received, nones, call, builder, built, pair>>

\* The task of run takes a turn of its loop on the input.
RunLoop ==
    /\ loops.run.exit = "none"
    /\ loops' = [loops EXCEPT !.run = run_step(loops.source, loops.consumer, @)]
    /\ UNCHANGED notLoops

\* The task of chat takes a turn of its loop on the same input; the two tasks
\* do not interact, so chat's is run once run's has ended.
ChatLoop ==
    /\ loops.run.exit # "none"
    /\ loops.chat.exit = "none"
    /\ loops' = [loops EXCEPT !.chat = chat_step(loops.source, loops.consumer, @)]
    /\ UNCHANGED notLoops

LoopNext ==
    \/ RunLoop
    \/ ChatLoop

LoopSpec == LoopInit /\ [][LoopNext]_vars

\* ------------------------------------------------------------ properties

\* The items the decoder has yielded so far.
Decoded == SubSeq(source.items, 1, idx)

IsMessage(it) == it.item = "Message"

\* A frame under a known name whose payload does not parse.
Malformed(it) == IsMessage(it) /\ ~parsed_event(it).ok

\* A frame that parses to an event.
WellFormed(it) == IsMessage(it) /\ parsed_event(it).ok

\* The events of the frames that parsed, in frame order.
EventsOf(items) ==
    LET ok == SelectSeq(items, WellFormed)
    IN  [i \in 1..Len(ok) |-> parsed_event(ok[i]).event]

\* One event per frame: UnknownEvent stands in for a payload that failed.
OnePerFrame(items) ==
    LET ms == SelectSeq(items, IsMessage)
    IN  [i \in 1..Len(ms) |->
            IF parsed_event(ms[i]).ok THEN parsed_event(ms[i]).event
                                      ELSE UnknownEvent]

\* The event held by a send that has not completed.
InFlight == IF task = "send" THEN <<event>> ELSE <<>>

\* Everything the task has handed or is handing to the channel.
Produced == received \o queue \o InFlight

IsPrefix(s, t) == Len(s) <= Len(t) /\ SubSeq(t, 1, Len(s)) = s

Range(s) == {s[i] : i \in DOMAIN s}

\* C1: every message frame decoded so far accounts for exactly one event
\* handed to the channel, a frame whose payload failed to parse for one
\* UnknownEvent.
C1_EveryFrameOneEvent ==
    receiver = "held" => Produced = OnePerFrame(Decoded)

\* C2: a payload that fails to parse never ends the stream. The task leaves
\* its loop only at the end of the source, on its transport error or on a
\* closed channel; the call that spawned it returned the stream and no error;
\* and a consumer that read to the end got the event of every well-formed
\* frame that followed a malformed one.
C2_MalformedDoesNotAbort ==
    /\ task # "none" => result = "Stream"
    /\ exit = "eof" => idx = Len(source.items) /\ source.ending = "eof"
    /\ exit = "error" => idx = Len(source.items) /\ source.ending = "error"
    /\ exit = "closed" => receiver = "dropped"
    /\ (receiver = "held" /\ nones > 0) =>
          \A i, j \in 1..Len(source.items) :
             (i < j /\ Malformed(source.items[i]) /\ WellFormed(source.items[j]))
                => parsed_event(source.items[j]).event \in Range(received)

\* C2 witness: the consumer reached the end of a stream that held a malformed
\* frame followed by a well-formed one.
C2_Witness ==
    /\ receiver = "held"
    /\ nones > 0
    /\ \E i, j \in 1..Len(source.items) :
          /\ i < j
          /\ Malformed(source.items[i])
          /\ WellFormed(source.items[j])
          /\ parsed_event(source.items[j]).event \in Range(received)

\* C3: the consumer receives the events in the order their frames were
\* decoded: what was received, then what is queued, then what is being sent
\* is the sequence of decoded events, and after a drop what was received is a
\* prefix of it.
C3_OrderPreserved ==
    IF receiver = "dropped"
      THEN IsPrefix(received, EventsOf(Decoded))
      ELSE Produced = EventsOf(Decoded)

\* C3 witness: two different events were received while more are queued.
C3_Witness ==
    /\ Len(received) >= 2
    /\ received[1] # received[2]
    /\ Len(queue) >= 2
    /\ task = "send"

\* C4: the queue never holds more than Capacity events, and while it is full
\* and the receiver is kept the sending task stays in its send with the same
\* event and reads no further frame; only a recv changes the queue.
C4_BoundedQueue ==
    /\ [](Len(queue) <= Capacity)
    /\ [][(task = "send" /\ Len(queue) = Capacity /\ receiver' = "held")
            => (task' = "send" /\ event' = event /\ idx' = idx
                /\ (queue' = queue \/ queue' = Tail(queue)))]_vars

\* C4 witness: the task is suspended in send on a full queue.
C4_Witness ==
    /\ task = "send"
    /\ receiver = "held"
    /\ Len(queue) = Capacity

\* C5: once the receiver is dropped, the first send the task attempts fails
\* and ends the task; nothing is queued or received any more, and a finished
\* task reads nothing further from the source.
C5_DropEndsProducer ==
    [][/\ (receiver = "dropped" /\ task = "send" /\ task' # "send")
            => (task' = "done" /\ exit' = "closed" /\ idx' = idx)
       /\ receiver = "dropped" => (queue' = <<>> /\ received' = received)
       /\ task = "done" => (task' = "done" /\ idx' = idx)]_vars

\* C5 witness: the task ended on a closed channel before the source was
\* exhausted.
C5_Witness ==
    /\ exit = "closed"
    /\ task = "done"
    /\ idx < Len(source.items)

\* C6: whenever the consumer has dropped the receiver, the producer task
\* eventually leaves its loop, whatever the byte source does afterwards.
C6_TaskExitsAfterDrop == (receiver = "dropped") ~> (task = "done")

\* C7: a transport error ends the task, so the sender is dropped and recv
\* reports the end once the queue is drained; nothing is queued after the
\* error and the consumer is handed the decoded events and no error value.
C7_TransportErrorEndsSequence ==
    /\ [](exit = "error" =>
            /\ task = "done"
            /\ SenderDropped
            /\ receiver = "held" => received \o queue = EventsOf(source.items)
            /\ (receiver = "held" /\ queue = <<>> /\ nones < MaxNone)
                  => ENABLED RecvNone)
    /\ [][exit = "error" => (exit' = "error" /\ Len(queue') <= Len(queue))]_vars

\* C7 witness: after a transport error the consumer drained the queue and
\* recv returned None.
C7_Witness ==
    /\ exit = "error"
    /\ received # <<>>
    /\ nones > 0

\* C8: once recv has returned None, every later recv returns None as well:
\* recv stays ready to return None, and nothing is received or queued again.
C8_EndIsIdempotent ==
    /\ []((receiver = "held" /\ nones > 0 /\ nones < MaxNone) => ENABLED RecvNone)
    /\ [][nones > 0 => (received' = received /\ queue' = <<>> /\ nones' >= nones)]_vars

\* C8 witness: recv returned None repeatedly after the source was exhausted
\* and its events were received.
C8_Witness ==
    /\ nones >= 2
    /\ exit = "eof"
    /\ received # <<>>

\* C9: a call that asked for a stream and got a status outside 200..299
\* returns an error and spawns no producer task.
C9_NoStreamOutside2xx ==
    (result # "none" /\ stream /\ ~(status >= 200 /\ status <= 299))
        => (result = "Err" /\ task = "none")

\* C10: a frame whose name is not exactly latitude-event or provider-event
\* makes the task send UnknownEvent, whatever its data, and a completed send
\* queues exactly that one event.
C10_OtherNamesUnknown ==
    [][/\ (/\ task = "next"
           /\ idx' = idx + 1
           /\ IsMessage(source.items[idx'])
           /\ source.items[idx'].name \notin {"latitude-event", "provider-event"})
          => (task' = "send" /\ event' = UnknownEvent)
       /\ (task = "send" /\ task' = "next") => queue' = Append(queue, event)]_vars

\* C10 witness: a frame named Latitude-Event with a valid chain-step payload
\* is being sent as UnknownEvent.
C10_Witness ==
    /\ task = "send"
    /\ event = UnknownEvent
    /\ idx > 0
    /\ source.items[idx].name = "Latitude-Event"
    /\ source.items[idx].data.type = "chain-step"

\* C11: a latitude-event frame with a valid payload is sent as one
\* LatitudeEvent of the variant its type discriminant names, carrying the
\* payload; a provider-event frame with a valid payload as one ProviderEvent;
\* and the outer variant of an event being sent agrees with its frame's name.
C11_ValidPayloadTypedEvent ==
    /\ [][(/\ task = "next"
           /\ idx' = idx + 1
           /\ IsMessage(source.items[idx']))
          => LET m == source.items[idx'] IN
             /\ (m.name = "latitude-event" /\ m.data.type \in LatitudeEventType)
                  => /\ task' = "send"
                     /\ event' = [kind |-> "LatitudeEvent", type |-> m.data.type,
                                  tag |-> m.data.tag]
             /\ (m.name = "provider-event" /\ m.data.type \in ProviderEventType)
                  => /\ task' = "send"
                     /\ event' = [kind |-> "ProviderEvent", type |-> m.data.type,
                                  tag |-> m.data.tag]]_vars
    /\ [](task = "send" =>
            /\ event.kind = "LatitudeEvent" => source.items[idx].name = "latitude-event"
            /\ event.kind = "ProviderEvent" => source.items[idx].name = "provider-event")

\* C11 witness: a chain-step and a text-delta were received as a
\* LatitudeEvent and a ProviderEvent.
C11_Witness ==
    /\ Len(received) = 2
    /\ received[1] = [kind |-> "LatitudeEvent", type |-> "chain-step", tag |-> 1]
    /\ received[2] = [kind |-> "ProviderEvent", type |-> "text-delta", tag |-> 2]

\* C12: a retry frame puts no event on the queue and the task goes on to the
\* next frame.
C12_RetryDiscarded ==
    [][(/\ task = "next"
        /\ idx' = idx + 1
        /\ source.items[idx'].item = "Retry")
       => (task' = "next" /\ event' = NoEvent /\ queue' = queue /\ exit' = exit)]_vars

\* C12 witness: the frame after a retry frame was decoded and received, and
\* nothing else was.
C12_Witness ==
    /\ Len(source.items) = 2
    /\ source.items[1].item = "Retry"
    /\ Len(received) = 1
    /\ received[1].tag = 2
    /\ nones > 0

\* The consumer holds the handle and the task waits in send on a full queue.
Suspended == task = "send" /\ receiver = "held" /\ Len(queue) = Capacity

\* C13: on a full queue the task is suspended: it has not ended, neither of
\* its steps can be taken, so no further frame is read, and only a recv or
\* dropping the handle gets the system out of that state; once a slot is free
\* or the handle is gone the send can complete.
C13_SuspendedOnFullQueue ==
    /\ [](Suspended =>
            /\ exit = "none"
            /\ ~ENABLED DecoderNext
            /\ ~ENABLED Send
            /\ Len(EventsOf(Decoded)) = Len(received) + Capacity + 1)
    /\ []((task = "send" /\ ~Suspended) => ENABLED Send)
    /\ [][Suspended => (Len(received') = Len(received) + 1 \/ receiver' = "dropped")]_vars

\* C13 witness: the consumer never read, and the task is suspended with the
\* queue full and one more event in hand.
C13_Witness ==
    /\ Suspended
    /\ received = <<>>
    /\ nones = 0
    /\ idx = Capacity + 1

\* The calls whose URL carries a project id and a version id.
WithIds == {"run", "get", "log"}

\* The project id the call's options carry, if any.
GivenProjectId == IF options = None THEN None ELSE (CHOOSE o \in options : TRUE).project_id

\* The version id the call's options carry, if any.
GivenVersionId == IF options = None THEN None ELSE (CHOOSE o \in options : TRUE).version_id

\* C16: when neither the options nor the client supplies a project id, run,
\* get and log return ConfigError, send no HTTP request and spawn no task.
C16_MissingProjectIdNoRequest ==
    (/\ api \in WithIds
     /\ result # "none"
     /\ GivenProjectId = None
     /\ client.project_id = None)
        => (/\ result = "Err"
            /\ error = "ConfigError"
            /\ request = {}
            /\ task = "none"
            /\ receiver = "none")

\* C16 witness: log returned ConfigError for options that carry only a
\* version id on a client without a project id.
C16_Witness ==
    /\ api = "log"
    /\ error = "ConfigError"
    /\ options # None
    /\ GivenProjectId = None
    /\ GivenVersionId # None
    /\ client.project_id = None

\* C17: a call whose request was answered with 429, 401, 403, 400, 404, 409
\* or 422 returns the LatitudeError of that status, and one answered with 200
\* or 201 returns no LatitudeError.
C17_StatusMapping ==
    (result # "none" /\ request # {}) =>
        /\ status = 429 => (result = "Err" /\ error = "RateLimitError")
        /\ status = 401 => (result = "Err" /\ error = "UnauthorizedError")
        /\ status = 403 => (result = "Err" /\ error = "ForbiddenError")
        /\ status = 400 => (result = "Err" /\ error = "BadRequestError")
        /\ status = 404 => (result = "Err" /\ error = "NotFoundError")
        /\ status = 409 => (result = "Err" /\ error = "ConflictError")
        /\ status = 422 => (result = "Err" /\ error = "UnprocessableEntityError")
        /\ status \in {200, 201} => error \in {"none", "HttpError"}

\* C17 witness: a request answered with 401 returned UnauthorizedError.
C17_Witness ==
    /\ request # {}
    /\ status = 401
    /\ error = "UnauthorizedError"

\* C18: a run that succeeds returns a stream exactly if document.stream is
\* set and the parsed JSON body exactly if it is not, and the JSON case spawns
\* no task.
C18_StreamFlagSelectsShape ==
    (api = "run" /\ result \in {"Stream", "Json"}) =>
        /\ result = "Stream" <=> stream
        /\ result = "Json" <=> ~stream
        /\ result = "Json" => (task = "none" /\ receiver = "none")
        /\ result = "Stream" => (task = "next" /\ receiver = "held")

\* C18 witness: a run without the stream flag returned the JSON body.
C18_Witness ==
    /\ api = "run"
    /\ ~stream
    /\ result = "Json"

\* C19: the URL of run, get and log carries the options' project id if set
\* and the client's otherwise, and the options' version id if set, else the
\* client's, else "live"; with a project id at hand the request is sent
\* whether or not a version id is.
C19_IdResolution ==
    /\ \A r \in request : r.api \in WithIds =>
          /\ r.project_id =
                (IF GivenProjectId # None THEN GivenProjectId ELSE client.project_id)
          /\ r.project_id # None
          /\ r.version_id =
                (IF GivenVersionId # None THEN GivenVersionId
                 ELSE IF client.version_id # None THEN client.version_id
                 ELSE Some("live"))
    /\ (/\ api \in WithIds
        /\ result # "none"
        /\ (GivenProjectId # None \/ client.project_id # None))
          => (request # {} /\ error # "ConfigError")

\* C19 witness: the options' project id went into the URL in place of the
\* client's, with the version "live" because neither gave one.
C19_Witness ==
    /\ client.project_id = Some(2)
    /\ \E r \in request :
          /\ r.api = "get"
          /\ r.project_id = Some(1)
          /\ r.version_id = Some("live")

\* The names of the setters called on the builder so far.
SettersCalled == {builder.calls[i][1] : i \in DOMAIN builder.calls}

\* The setters build() cannot do without, per kind of builder.
RequiredSetters ==
    CASE builder.kind = "Chat" -> {"conversation_id"}
      [] builder.kind = "Message" -> {"role"}
      [] builder.kind = "RunDocument" -> {"path"}
      [] builder.kind = "Log" -> {"path", "response"}
      [] OTHER -> {}

\* The four request builders whose build() returns a Result.
RequestBuilders == {"Chat", "Message", "RunDocument", "Log"}

\* C20: on each of the four request builders, whatever setters were called
\* and in whatever order, build() returns Err(ConfigError) exactly if a
\* required setter was never called, and Ok otherwise.
C20_BuildRequiresFields ==
    (builder.kind \in RequestBuilders /\ built.state # "none") =>
        /\ built.state = "Err" <=> ~(RequiredSetters \subseteq SettersCalled)
        /\ built.state = "Ok" <=> RequiredSetters \subseteq SettersCalled

\* C20 witness: a LogBuilder given a path, a message and options but no
\* response failed to build.
C20_Witness ==
    /\ builder.kind = "Log"
    /\ SettersCalled = {"path", "add_message", "options"}
    /\ built.state = "Err"
    /\ built.msg = "Response is required"

\* The calls that were made.
Started == {s \in StreamIds : instances[s].task # "none"}

\* The tasks that send on channel c, and the handles that receive from it.
ProducersOf(c) == {s \in Started : instances[s].tx = c}

ReadersOf(c) == {s \in Started : instances[s].rx = c}

\* C14: under every interleaving of two streaming calls, every event received
\* on a call's handle was decoded from that call's own response body, every
\* call has a channel, and every channel has exactly one producer task and
\* exactly one reader.
C14_StreamsShareNothing ==
    /\ \A s \in StreamIds : \A i \in DOMAIN instances[s].received :
          Origin(instances[s].received[i]) = s
    /\ \A s \in Started : instances[s].tx \in DOMAIN channels
    /\ \A c \in DOMAIN channels :
          /\ Cardinality(ProducersOf(c)) = 1
          /\ Cardinality(ReadersOf(c)) = 1

\* C14 witness: both handles have received an event while both producer
\* tasks are still running.
C14_Witness ==
    /\ \A s \in StreamIds :
          /\ instances[s].received # <<>>
          /\ instances[s].task \in {"next", "send"}
          /\ instances[s].idx < Len(instances[s].source.items)

\* The arguments of the add_message calls made on the builder, in call order.
RECURSIVE MessagesAdded(_)
MessagesAdded(cs) ==
    IF cs = <<>> THEN <<>>
    ELSE IF Head(cs)[1] = "add_message"
      THEN <<Head(cs)[2]>> \o MessagesAdded(Tail(cs))
      ELSE MessagesAdded(Tail(cs))

\* C21: on a ChatBuilder or LogBuilder, whatever other setters are called in
\* between, the builder's messages, and the messages of the value build()
\* returns, are exactly the arguments of the add_message calls in call order.
C21_AddMessageAppends ==
    builder.kind \in {"Chat", "Log"} =>
        /\ builder.messages = MessagesAdded(builder.calls)
        /\ built.state = "Ok" => built.value.messages = MessagesAdded(builder.calls)

\* C21 witness: a Chat built after add_message, conversation_id, add_message
\* holds the two messages in call order.
C21_Witness ==
    /\ builder.kind = "Chat"
    /\ builder.calls = <<<<"add_message", "m2">>, <<"conversation_id", "some-id">>,
                         <<"add_message", "m1">>>>
    /\ built.state = "Ok"
    /\ built.value.messages = <<"m2", "m1">>

\* T::default(), the value RunDocument::new puts in place of missing parameters.
T_default == "default"

\* C22 (stream half): a RunDocument built without a call to stream has
\* stream == false.
StreamDefaultsFalse ==
    (builder.kind = "RunDocument" /\ built.state = "Ok" /\ "stream" \notin SettersCalled)
        => built.value.stream = FALSE

\* C22: a RunDocument built without a call to parameters has
\* parameters == Some(T::default()), and one built without a call to stream
\* has stream == false.
C22_BuildDefaults ==
    (builder.kind = "RunDocument" /\ built.state = "Ok") =>
        /\ "parameters" \notin SettersCalled => built.value.parameters = Some(T_default)
        /\ StreamDefaultsFalse

\* The argument of the last call of the setter, as an Option: None if the
\* setter was never called.
RECURSIVE LastArg(_, _)
LastArg(cs, name) ==
    IF cs = <<>> THEN None
    ELSE IF cs[Len(cs)][1] = name THEN Some(cs[Len(cs)][2])
    ELSE LastArg(SubSeq(cs, 1, Len(cs) - 1), name)

\* C23: a Client built by ClientBuilder carries the api_key given to
\* Client::builder and, for project_id, version_id and base_url, the argument
\* of the last call of that setter whatever other setters were called: None
\* for an id never set and the default base URL for a base_url never set. A
\* Client built by Client::new carries its arguments, with the default base
\* URL in place of None.
C23_ClientCarriesWhatWasSupplied ==
    built.state = "Ok" =>
        /\ builder.kind = "ClientBuilder" =>
              /\ built.value.api_key = builder.api_key
              /\ built.value.project_id = LastArg(builder.calls, "project_id")
              /\ built.value.version_id = LastArg(builder.calls, "version_id")
              /\ built.value.base_url =
                    unwrap_or(LastArg(builder.calls, "base_url"), BASE_URL)
        /\ builder.kind = "Client::new" =>
              /\ built.value.api_key = builder.api_key
              /\ built.value.project_id = builder.project_id
              /\ built.value.version_id = builder.version_id
              /\ built.value.base_url = unwrap_or(builder.base_url, BASE_URL)

\* C23 witness: a Client built after project_id, base_url, project_id has the
\* second project id, the custom base URL and no version id.
C23_Witness ==
    /\ builder.kind = "ClientBuilder"
    /\ Len(builder.calls) = 3
    /\ builder.calls[1][1] = "project_id"
    /\ builder.calls[2][1] = "base_url"
    /\ builder.calls[3][1] = "project_id"
    /\ builder.calls[1][2] # builder.calls[3][2]
    /\ built.state = "Ok"
    /\ built.value.project_id = Some(builder.calls[3][2])
    /\ built.value.version_id = None
    /\ built.value.base_url = "https://test.url/api"

\* The task and the consumer do not wait for one another: the task can take
\* the next item whenever the source has one, and the consumer can take an
\* event whenever the queue has one.
DecodingIsConcurrent ==
    /\ (task = "next" /\ idx < Len(source.items)) => ENABLED DecoderNext
    /\ (receiver = "held" /\ queue # <<>>) => ENABLED RecvSome

\* C24: the step in which run or chat returns Response::Stream reads, decodes
\* and queues no frame: it leaves the task at the top of its loop with the
\* whole body ahead of it and the handle held by the caller; from then on the
\* task decodes concurrently with the consumer's reads.
C24_HandleReturnedImmediately ==
    /\ [][(result = "none" /\ result' = "Stream")
            => /\ task' = "next"
               /\ idx' = 0
               /\ queue' = <<>>
               /\ received' = <<>>
               /\ receiver' = "held"]_vars
    /\ []DecodingIsConcurrent

\* C24 witness: the call has returned the handle while every frame of a
\* non-empty body is still unread.
C24_Witness ==
    /\ result = "Stream"
    /\ receiver = "held"
    /\ task = "next"
    /\ idx = 0
    /\ Len(source.items) > 0
    /\ queue = <<>>

\* C25: given the same response body and the same consumer, the task spawned
\* by chat puts the same events on its queue as the task spawned by run, and
\* ends for the same reason.
C25_LoopsEquivalent ==
    (loops.run.exit # "none" /\ loops.chat.exit # "none") => loops.chat = loops.run

\* C25 witness: both loops dropped a malformed frame, sent the event of the
\* frame after it and ended at a transport error.
C25_Witness ==
    /\ loops.consumer.drop_at = 0
    /\ Len(loops.source.items) = 2
    /\ Malformed(loops.source.items[1])
    /\ loops.run.exit = "error"
    /\ loops.chat.exit = "error"
    /\ Len(loops.run.sent) = 1
    /\ Len(loops.chat.sent) = 1

\* C26: the end of the task loses no queued event. While events are queued
\* recv returns the next of them and never None, so once recv has reported
\* the end of a task that ended at the end of the source or at a transport
\* error, every event the task decoded was received, in order; and what was
\* received is always a prefix of the events of the whole body.
C26_ClosingLosesNothing ==
    /\ (receiver = "held" /\ queue # <<>>) => (ENABLED RecvSome /\ ~ENABLED RecvNone)
    /\ (nones > 0 /\ exit \in {"eof", "error"}) => received = EventsOf(Decoded)
    /\ IsPrefix(received, EventsOf(source.items))

\* C26 witness: the task has ended at the end of the source with a full queue
\* of events the consumer has not yet received.
C26_Witness ==
    /\ task = "done"
    /\ exit = "eof"
    /\ receiver = "held"
    /\ Len(queue) = Capacity
    /\ nones = 0

\* C27: when the consumer drops the handle while the task is suspended in
\* send on a full queue, the send is still pending but no longer suspended:
\* it can complete, it completes only with an error that ends the loop, and
\* it does complete, so the task is never left waiting on a queue whose
\* receiver is gone.
C27_DropWakesSuspendedSend ==
    /\ [][(Suspended /\ receiver' = "dropped") => (task' = "send" /\ event' = event)]_vars
    /\ []((task = "send" /\ receiver = "dropped") => ENABLED Send)
    /\ [][(task = "send" /\ receiver = "dropped" /\ task' # "send")
            => (task' = "done" /\ exit' = "closed" /\ queue' = <<>>)]_vars
    /\ (task = "send" /\ receiver = "dropped") ~> (task = "done" /\ exit = "closed")

\* C27 witness: the handle is dropped and the task holds an event it could
\* not send because Capacity events before it were never received.
C27_Witness ==
    /\ receiver = "dropped"
    /\ task = "send"
    /\ queue = <<>>
    /\ Len(EventsOf(Decoded)) = Len(received) + Capacity + 1

====
